---- MODULE Spec2Model ----
(***************************************************************************)
(* Model of the chess core of elianarmoa/ChessGame: Movimiento,            *)
(* DerechosEnroque and EstadoJuego of chess_engine.py.  Squares are        *)
(* <<fila, col>> with fila, col in 0..7 as in the source; a piece code     *)
(* "wp" is the pair <<"w", "p">> and "--" is <<"-", "-">>, so that the     *)
(* source's pieza[0] / pieza[1] are pieza[1] / pieza[2] here.  The empty   *)
(* tuple () of the source is <<>>.                                         *)
(***************************************************************************)
EXTENDS Integers, Sequences, FiniteSets, TLC

VARIABLES
    tablero,                    \* EstadoJuego.tablero
    turno_blancas,              \* EstadoJuego.turno_blancas
    historial_movimientos,      \* EstadoJuego.historial_movimientos
    pos_en_passant_posible,     \* EstadoJuego.pos_en_passant_posible
    derechos_enroque_actuales,  \* EstadoJuego.derechos_enroque_actuales
    historial_derechos_enroque, \* EstadoJuego.historial_derechos_enroque
    pos_rey_blanco,             \* EstadoJuego.pos_rey_blanco
    pos_rey_negro,              \* EstadoJuego.pos_rey_negro
    jaque,                      \* EstadoJuego.jaque
    jaque_mate,                 \* EstadoJuego.jaque_mate
    ahogado,                    \* EstadoJuego.ahogado
    pins,                       \* EstadoJuego.pins
    checks,                     \* EstadoJuego.checks
    movimientos_legales,        \* the list last returned by obtener_movimientos_legales
    ultima_op,                  \* the last operations called on the EstadoJuego
    antes,                      \* the position just before the last call that changes or reads it
    previo,                     \* the whole EstadoJuego just before the last call
    PROXIMO_MOVIMIENTO_IA,      \* chess_ai.PROXIMO_MOVIMIENTO_IA
    movimiento_ia,              \* what find_best_move returned last
    puntuacion_ia,              \* what the search it started returned
    dejado_ia,                  \* what PROXIMO_MOVIMIENTO_IA held when it was called
    mov_a,                      \* a Movimiento under comparison
    mov_b,                      \* the Movimiento it is compared with
    iguales,                    \* the result of mov_a == mov_b, "?" before the call
    estado_juego_actual,        \* main's estado_juego_actual: the screen shown
    tecla                       \* evento.key of the KEYDOWN event handled last, "" for other events

gsvars == <<tablero, turno_blancas, historial_movimientos, pos_en_passant_posible,
            derechos_enroque_actuales, historial_derechos_enroque, pos_rey_blanco,
            pos_rey_negro, jaque, jaque_mate, ahogado, pins, checks>>

movvars == <<mov_a, mov_b, iguales>>

iavars == <<PROXIMO_MOVIMIENTO_IA, movimiento_ia, puntuacion_ia, dejado_ia>>

pantvars == <<estado_juego_actual, tecla>>

vars == <<gsvars, movimientos_legales, ultima_op, antes, previo, iavars, movvars, pantvars>>

----------------------------------------------------------------------------
(* Pieces and the board *)

Vacia == <<"-", "-">>

Fila(str) == [c \in 0..7 |-> <<str[1], str[2][c + 1]>>]

FilaVacia == [c \in 0..7 |-> Vacia]

TableroInicial ==
    [r \in 0..7 |->
        CASE r = 0 -> Fila(<<"b", <<"r", "n", "b", "q", "k", "b", "n", "r">>>>)
          [] r = 1 -> Fila(<<"b", <<"p", "p", "p", "p", "p", "p", "p", "p">>>>)
          [] r = 6 -> Fila(<<"w", <<"p", "p", "p", "p", "p", "p", "p", "p">>>>)
          [] r = 7 -> Fila(<<"w", <<"r", "n", "b", "q", "k", "b", "n", "r">>>>)
          [] OTHER -> FilaVacia]

EnTablero(r, c) == 0 <= r /\ r < 8 /\ 0 <= c /\ c < 8

Abs(x) == IF x < 0 THEN -x ELSE x

----------------------------------------------------------------------------
(* Movimiento *)

MoveID(fi, ci, ff, cf) == fi * 1000 + ci * 100 + ff * 10 + cf

Movimiento(start_sq, end_sq, tab, en_passant_posible, enroque_movimiento) ==
    LET fi == start_sq[1]
        ci == start_sq[2]
        ff == end_sq[1]
        cf == end_sq[2]
        movida == tab[fi][ci]
    IN  [fila_inicial |-> fi,
         col_inicial |-> ci,
         fila_final |-> ff,
         col_final |-> cf,
         pieza_movida |-> movida,
         pieza_capturada |->
             IF en_passant_posible
             THEN (IF movida[1] = "b" THEN <<"w", "p">> ELSE <<"b", "p">>)
             ELSE tab[ff][cf],
         es_promocion_peon |->
             (movida[2] = "p" /\ ((movida[1] = "w" /\ ff = 0) \/ (movida[1] = "b" /\ ff = 7))),
         es_en_passant_movimiento |-> en_passant_posible,
         es_movimiento_enroque |-> enroque_movimiento,
         move_ID |-> MoveID(fi, ci, ff, cf)]

\* Movimiento.__eq__
MovEq(a, b) == a.move_ID = b.move_ID

\* `movimiento in lista`: Python's list membership, by __eq__
EnLista(m, lista) == \E k \in 1..Len(lista) : MovEq(lista[k], m)

----------------------------------------------------------------------------
(* DerechosEnroque *)

DerechosEnroque(wks, wqs, bks, bqs) == [wks |-> wks, wqs |-> wqs, bks |-> bks, bqs |-> bqs]

\* the rights update without its two king branches
ActualizarDerechosSinRey(d, m) ==
    LET mv == m.pieza_movida
        d1 == IF mv = <<"w", "r">> /\ m.fila_inicial = 7 /\ m.col_inicial = 7
                  THEN [d EXCEPT !.wks = FALSE]
              ELSE IF mv = <<"w", "r">> /\ m.fila_inicial = 7 /\ m.col_inicial = 0
                  THEN [d EXCEPT !.wqs = FALSE]
              ELSE IF mv = <<"b", "r">> /\ m.fila_inicial = 0 /\ m.col_inicial = 7
                  THEN [d EXCEPT !.bks = FALSE]
              ELSE IF mv = <<"b", "r">> /\ m.fila_inicial = 0 /\ m.col_inicial = 0
                  THEN [d EXCEPT !.bqs = FALSE]
              ELSE d
    IN  d1

\* the rights update without its branches for a captured rook
ActualizarDerechosSinCaptura(d, m) ==
    IF m.pieza_movida = <<"w", "k">> THEN [d EXCEPT !.wks = FALSE, !.wqs = FALSE]
    ELSE IF m.pieza_movida = <<"b", "k">> THEN [d EXCEPT !.bks = FALSE, !.bqs = FALSE]
    ELSE ActualizarDerechosSinRey(d, m)

ActualizarDerechosEnroque(d, m) ==
    LET mv == m.pieza_movida
        cap == m.pieza_capturada
        d1 == IF mv = <<"w", "k">> THEN [d EXCEPT !.wks = FALSE, !.wqs = FALSE]
              ELSE IF mv = <<"b", "k">> THEN [d EXCEPT !.bks = FALSE, !.bqs = FALSE]
              ELSE IF mv = <<"w", "r">> THEN
                  (IF m.fila_inicial = 7
                   THEN (IF m.col_inicial = 7 THEN [d EXCEPT !.wks = FALSE]
                         ELSE IF m.col_inicial = 0 THEN [d EXCEPT !.wqs = FALSE]
                         ELSE d)
                   ELSE d)
              ELSE IF mv = <<"b", "r">> THEN
                  (IF m.fila_inicial = 0
                   THEN (IF m.col_inicial = 7 THEN [d EXCEPT !.bks = FALSE]
                         ELSE IF m.col_inicial = 0 THEN [d EXCEPT !.bqs = FALSE]
                         ELSE d)
                   ELSE d)
              ELSE d
        d2 == IF cap = <<"w", "r">> THEN
                  (IF m.fila_final = 7
                   THEN (IF m.col_final = 7 THEN [d1 EXCEPT !.wks = FALSE]
                         ELSE IF m.col_final = 0 THEN [d1 EXCEPT !.wqs = FALSE]
                         ELSE d1)
                   ELSE d1)
              ELSE IF cap = <<"b", "r">> THEN
                  (IF m.fila_final = 0
                   THEN (IF m.col_final = 7 THEN [d1 EXCEPT !.bks = FALSE]
                         ELSE IF m.col_final = 0 THEN [d1 EXCEPT !.bqs = FALSE]
                         ELSE d1)
                   ELSE d1)
              ELSE d1
    IN  d2

----------------------------------------------------------------------------
(* EstadoJuego.actualizar_pins_y_checks *)

DireccionesRey == <<<<-1, 0>>, <<0, -1>>, <<1, 0>>, <<0, 1>>,
                    <<-1, -1>>, <<-1, 1>>, <<1, -1>>, <<1, 1>>>>

MovimientosCaballoL == <<<<-2, -1>>, <<-2, 1>>, <<-1, -2>>, <<-1, 2>>,
                         <<1, -2>>, <<1, 2>>, <<2, -1>>, <<2, 1>>>>

Nada == [pins |-> <<>>, checks |-> <<>>]

\* the pawn branch of the ray walk: does an enemy pawn met at step j of
\* direction (dr, dc) count as giving check to a king of color_propio
PeonDaJaque(color_propio, dr, dc, j) ==
    \/ (color_propio = "w" /\ dr = 1 /\ Abs(dc) = 1 /\ j = 1)
    \/ (color_propio = "b" /\ dr = -1 /\ Abs(dc) = 1 /\ j = 1)

\* what an enemy piece of type tipo met on direction i (1..8) does to the king
AtacanteEnRayo(tipo, i, dr, dc, j, posible_pin, sq, color_propio) ==
    IF i <= 4 /\ (tipo = "r" \/ tipo = "q") THEN
        (IF posible_pin = <<>> THEN [pins |-> <<>>, checks |-> <<sq>>]
         ELSE [pins |-> <<posible_pin>>, checks |-> <<>>])
    ELSE IF i > 4 /\ (tipo = "b" \/ tipo = "q") THEN
        (IF posible_pin = <<>> THEN [pins |-> <<>>, checks |-> <<sq>>]
         ELSE [pins |-> <<posible_pin>>, checks |-> <<>>])
    ELSE IF tipo = "p" THEN
        (IF PeonDaJaque(color_propio, dr, dc, j) /\ posible_pin = <<>>
         THEN [pins |-> <<>>, checks |-> <<sq>>]
         ELSE Nada)
    ELSE Nada

\* the inner loop `for j in range(1, 8)` of one direction
RECURSIVE RecorrerRayo(_, _, _, _, _, _, _, _)
RecorrerRayo(tab, fila_rey, col_rey, i, j, posible_pin, color_propio, dir) ==
    IF j > 7 THEN Nada
    ELSE
        LET fila_final == fila_rey + dir[1] * j
            col_final == col_rey + dir[2] * j
        IN  IF ~EnTablero(fila_final, col_final) THEN Nada
            ELSE
                LET pieza_en_casilla == tab[fila_final][col_final]
                IN  IF pieza_en_casilla = Vacia
                        THEN RecorrerRayo(tab, fila_rey, col_rey, i, j + 1, posible_pin,
                                          color_propio, dir)
                    ELSE IF pieza_en_casilla[1] = color_propio
                        THEN (IF posible_pin = <<>>
                              THEN RecorrerRayo(tab, fila_rey, col_rey, i, j + 1,
                                                <<fila_final, col_final>>, color_propio, dir)
                              ELSE Nada)
                    ELSE AtacanteEnRayo(pieza_en_casilla[2], i, dir[1], dir[2], j,
                                        posible_pin, <<fila_final, col_final>>, color_propio)

\* one pass of the outer loop `for i, (dr, dc) in enumerate(direcciones)`
Rayo(tab, rey, color_propio, i) ==
    RecorrerRayo(tab, rey[1], rey[2], i, 1, <<>>, color_propio, DireccionesRey[i])

\* one pass of the loop `for dr, dc in movimientos_caballo_l`
JaqueDeCaballo(tab, rey, color_oponente, k) ==
    IF /\ EnTablero(rey[1] + MovimientosCaballoL[k][1], rey[2] + MovimientosCaballoL[k][2])
       /\ tab[rey[1] + MovimientosCaballoL[k][1]][rey[2] + MovimientosCaballoL[k][2]]
              = <<color_oponente, "n">>
    THEN <<<<rey[1] + MovimientosCaballoL[k][1], rey[2] + MovimientosCaballoL[k][2]>>>>
    ELSE <<>>

\* the end of the function: the pins and checks of the eight directions and
\* of the eight knight offsets, in the order the loops append them
Anotar(gs, rayos, caballos) ==
    LET todos == rayos[1].checks \o rayos[2].checks \o rayos[3].checks \o rayos[4].checks
                 \o rayos[5].checks \o rayos[6].checks \o rayos[7].checks \o rayos[8].checks
                 \o caballos[1] \o caballos[2] \o caballos[3] \o caballos[4]
                 \o caballos[5] \o caballos[6] \o caballos[7] \o caballos[8]
    IN  [gs EXCEPT
            !.pins = rayos[1].pins \o rayos[2].pins \o rayos[3].pins \o rayos[4].pins
                     \o rayos[5].pins \o rayos[6].pins \o rayos[7].pins \o rayos[8].pins,
            !.checks = todos,
            !.jaque = (todos /= <<>>)]

\* the king, and the colours, of the side to move
ReyPropio(gs) == IF gs.turno_blancas THEN gs.pos_rey_blanco ELSE gs.pos_rey_negro

ColorPropio(gs) == IF gs.turno_blancas THEN "w" ELSE "b"

ColorOponente(gs) == IF gs.turno_blancas THEN "b" ELSE "w"

RayosDe(tab, rey, color_propio) ==
    <<Rayo(tab, rey, color_propio, 1), Rayo(tab, rey, color_propio, 2),
      Rayo(tab, rey, color_propio, 3), Rayo(tab, rey, color_propio, 4),
      Rayo(tab, rey, color_propio, 5), Rayo(tab, rey, color_propio, 6),
      Rayo(tab, rey, color_propio, 7), Rayo(tab, rey, color_propio, 8)>>

CaballosDe(tab, rey, color_oponente) ==
    <<JaqueDeCaballo(tab, rey, color_oponente, 1), JaqueDeCaballo(tab, rey, color_oponente, 2),
      JaqueDeCaballo(tab, rey, color_oponente, 3), JaqueDeCaballo(tab, rey, color_oponente, 4),
      JaqueDeCaballo(tab, rey, color_oponente, 5), JaqueDeCaballo(tab, rey, color_oponente, 6),
      JaqueDeCaballo(tab, rey, color_oponente, 7), JaqueDeCaballo(tab, rey, color_oponente, 8)>>

ActualizarPinsYChecks(gs) ==
    Anotar(gs, RayosDe(gs.tablero, ReyPropio(gs), ColorPropio(gs)),
               CaballosDe(gs.tablero, ReyPropio(gs), ColorOponente(gs)))

----------------------------------------------------------------------------
(* EstadoJuego.__init__, hacer_movimiento, deshacer_movimiento *)

\* a target set after any move of two rows, whatever the piece
EnPassantTrasCualquierPieza(m) ==
    IF Abs(m.fila_inicial - m.fila_final) = 2
    THEN <<(m.fila_inicial + m.fila_final) \div 2, m.col_inicial>>
    ELSE <<>>

\* pos_en_passant_posible as the source derives it from one move
EnPassantTras(m) ==
    IF m.pieza_movida[2] = "p" /\ Abs(m.fila_inicial - m.fila_final) = 2
    THEN <<(m.fila_inicial + m.fila_final) \div 2, m.col_inicial>>
    ELSE <<>>

\* a rook relocation that leaves the rook on the corner as well
MoverTorreSinVaciar(tab, f, de, a) == [tab EXCEPT ![f][a] = tab[f][de]]

\* the rook relocation of a castle: tablero[f][a] = tablero[f][de]; tablero[f][de] = "--"
MoverTorre(tab, f, de, a) == [tab EXCEPT ![f][a] = tab[f][de], ![f][de] = Vacia]

EstadoInicial ==
    ActualizarPinsYChecks(
        [tablero |-> TableroInicial,
         turno_blancas |-> TRUE,
         historial_movimientos |-> <<>>,
         pos_en_passant_posible |-> <<>>,
         derechos_enroque_actuales |-> DerechosEnroque(TRUE, TRUE, TRUE, TRUE),
         historial_derechos_enroque |-> <<DerechosEnroque(TRUE, TRUE, TRUE, TRUE)>>,
         pos_rey_blanco |-> <<7, 4>>,
         pos_rey_negro |-> <<0, 4>>,
         jaque |-> FALSE,
         jaque_mate |-> FALSE,
         ahogado |-> FALSE,
         pins |-> <<>>,
         checks |-> <<>>])

\* the board after hacer_movimiento: origin cleared, piece placed, promotion
\* to queen, en-passant capture, rook relocation of a castle
TableroTras(tab, m) ==
    LET fi == m.fila_inicial
        ci == m.col_inicial
        ff == m.fila_final
        cf == m.col_final
        t1 == [tab EXCEPT ![fi][ci] = Vacia]
        t2 == [t1 EXCEPT ![ff][cf] = m.pieza_movida]
        t3 == IF m.es_promocion_peon
              THEN [t2 EXCEPT ![ff][cf] = <<m.pieza_movida[1], "q">>]
              ELSE t2
        t4 == IF m.es_en_passant_movimiento THEN [t3 EXCEPT ![fi][cf] = Vacia] ELSE t3
    IN  IF m.es_movimiento_enroque
        THEN (IF cf = 6 THEN MoverTorre(t4, ff, 7, 5) ELSE MoverTorre(t4, ff, 0, 3))
        ELSE t4

\* the rights written over the top entry of the stack
ApilarDerechosEncima(historial, derechos) ==
    [historial EXCEPT ![Len(historial)] = derechos]

\* line 162: historial_derechos_enroque.append(derechos_enroque_actuales.copiar())
ApilarDerechos(historial, derechos) ==
    Append(historial, derechos)

HacerMovimiento(gs, m) ==
    LET derechos == ActualizarDerechosEnroque(gs.derechos_enroque_actuales, m)
        movido ==
            [gs EXCEPT
                !.tablero = TableroTras(gs.tablero, m),
                !.historial_movimientos = Append(gs.historial_movimientos, m),
                !.turno_blancas = ~gs.turno_blancas,
                !.pos_rey_blanco = IF m.pieza_movida = <<"w", "k">>
                                   THEN <<m.fila_final, m.col_final>> ELSE @,
                !.pos_rey_negro = IF m.pieza_movida = <<"b", "k">>
                                  THEN <<m.fila_final, m.col_final>> ELSE @,
                !.pos_en_passant_posible = EnPassantTras(m),
                !.derechos_enroque_actuales = derechos,
                !.historial_derechos_enroque =
                    ApilarDerechos(gs.historial_derechos_enroque, derechos)]
    IN  [ActualizarPinsYChecks(movido) EXCEPT !.jaque_mate = FALSE, !.ahogado = FALSE]

\* an undo that leaves the two flags as they are
SinReiniciar(gs) == gs

\* lines 239-240: jaque_mate = False, ahogado = False
Reiniciar(gs) == [gs EXCEPT !.jaque_mate = FALSE, !.ahogado = FALSE]

\* lines 188-241: the body of the if, the history holding at least one move
DeshacerUltimo(gs) ==
        LET n == Len(gs.historial_movimientos)
            m == gs.historial_movimientos[n]
            historial == SubSeq(gs.historial_movimientos, 1, n - 1)
            fi == m.fila_inicial
            ci == m.col_inicial
            ff == m.fila_final
            cf == m.col_final
            t1 == [gs.tablero EXCEPT ![fi][ci] = m.pieza_movida]
            t2 == [t1 EXCEPT ![ff][cf] = m.pieza_capturada]
            t3 == IF m.es_en_passant_movimiento
                  THEN [[t2 EXCEPT ![ff][cf] = Vacia] EXCEPT ![fi][cf] = m.pieza_capturada]
                  ELSE t2
            t4 == IF m.es_promocion_peon THEN [t3 EXCEPT ![ff][cf] = m.pieza_movida] ELSE t3
            hd == SubSeq(gs.historial_derechos_enroque, 1,
                         Len(gs.historial_derechos_enroque) - 1)
            derechos == IF Len(hd) > 0 THEN hd[Len(hd)]
                        ELSE DerechosEnroque(TRUE, TRUE, TRUE, TRUE)
            t5 == IF m.es_movimiento_enroque
                  THEN (IF cf = 6 THEN MoverTorre(t4, ff, 5, 7) ELSE MoverTorre(t4, ff, 3, 0))
                  ELSE t4
            deshecho ==
                [gs EXCEPT
                    !.tablero = t5,
                    !.historial_movimientos = historial,
                    !.turno_blancas = ~gs.turno_blancas,
                    !.pos_rey_blanco = IF m.pieza_movida = <<"w", "k">> THEN <<fi, ci>> ELSE @,
                    !.pos_rey_negro = IF m.pieza_movida = <<"b", "k">> THEN <<fi, ci>> ELSE @,
                    !.derechos_enroque_actuales = derechos,
                    !.historial_derechos_enroque = hd,
                    !.pos_en_passant_posible =
                        IF Len(historial) = 0 THEN <<>>
                        ELSE EnPassantTras(historial[Len(historial)])]
        IN  ActualizarPinsYChecks(Reiniciar(deshecho))

\* an undo whose guard covers the pop only: on an empty history the turn is
\* still handed back and the flags are still recomputed
DeshacerSinGuarda(gs) ==
    IF Len(gs.historial_movimientos) = 0
    THEN ActualizarPinsYChecks([gs EXCEPT !.turno_blancas = ~gs.turno_blancas,
                                          !.jaque_mate = FALSE,
                                          !.ahogado = FALSE])
    ELSE DeshacerUltimo(gs)

DeshacerMovimiento(gs) ==
    IF Len(gs.historial_movimientos) = 0 THEN gs
    ELSE DeshacerUltimo(gs)

----------------------------------------------------------------------------
(* EstadoJuego.cuadrado_bajo_ataque *)

DireccionesAtaque == <<<<-1, 0>>, <<1, 0>>, <<0, -1>>, <<0, 1>>,
                       <<-1, -1>>, <<-1, 1>>, <<1, -1>>, <<1, 1>>>>

MovimientosReyAdyacentes == <<<<-1, -1>>, <<-1, 0>>, <<-1, 1>>, <<0, -1>>,
                              <<0, 1>>, <<1, -1>>, <<1, 0>>, <<1, 1>>>>

\* 1. Ataques de peones
AtaquePeon(tab, color_atacante, fila, col) ==
    IF color_atacante = "w"
    THEN fila > 0 /\ (\/ (col > 0 /\ tab[fila - 1][col - 1] = <<"w", "p">>)
                      \/ (col < 7 /\ tab[fila - 1][col + 1] = <<"w", "p">>))
    ELSE fila < 7 /\ (\/ (col > 0 /\ tab[fila + 1][col - 1] = <<"b", "p">>)
                      \/ (col < 7 /\ tab[fila + 1][col + 1] = <<"b", "p">>))

\* 2. and 4.: a piece of the given type one fixed offset away
AtaquePorSaltos(tab, color_atacante, tipo, saltos, fila, col) ==
    \E k \in 1..Len(saltos) :
        /\ EnTablero(fila + saltos[k][1], col + saltos[k][2])
        /\ tab[fila + saltos[k][1]][col + saltos[k][2]] = <<color_atacante, tipo>>

\* 3.: one direction of the sliding scan
RECURSIVE AtaqueEnRayo(_, _, _, _, _, _, _)
AtaqueEnRayo(tab, color_atacante, fila, col, i, j, dir) ==
    IF j > 7 THEN FALSE
    ELSE
        LET r_destino == fila + dir[1] * j
            c_destino == col + dir[2] * j
        IN  IF ~EnTablero(r_destino, c_destino) THEN FALSE
            ELSE
                LET pieza_destino == tab[r_destino][c_destino]
                IN  IF pieza_destino = Vacia
                        THEN AtaqueEnRayo(tab, color_atacante, fila, col, i, j + 1, dir)
                    ELSE IF pieza_destino[1] = color_atacante
                        THEN \/ (i <= 4 /\ (pieza_destino[2] = "r" \/ pieza_destino[2] = "q"))
                             \/ (i > 4 /\ (pieza_destino[2] = "b" \/ pieza_destino[2] = "q"))
                    ELSE FALSE

CuadradoBajoAtaque(gs, fila, col) ==
    LET color_atacante == IF gs.turno_blancas THEN "b" ELSE "w"
    IN  \/ AtaquePeon(gs.tablero, color_atacante, fila, col)
        \/ AtaquePorSaltos(gs.tablero, color_atacante, "n", MovimientosCaballoL, fila, col)
        \/ \E i \in 1..8 :
               AtaqueEnRayo(gs.tablero, color_atacante, fila, col, i, 1, DireccionesAtaque[i])
        \/ AtaquePorSaltos(gs.tablero, color_atacante, "k", MovimientosReyAdyacentes, fila, col)

----------------------------------------------------------------------------
(* Pseudo-legal move generation: get_movimientos_* *)

Mov(gs, r, c, end_r, end_c) == Movimiento(<<r, c>>, <<end_r, end_c>>, gs.tablero, FALSE, FALSE)

\* the pawn capture that takes en passant any enemy pawn standing beside it
CapturaPeonSinObjetivo(gs, r, c, end_r, end_c, dentro, color_oponente) ==
    IF 0 <= end_c /\ end_c < 8
    THEN (IF dentro /\ gs.tablero[end_r][end_c][1] = color_oponente
              THEN <<Mov(gs, r, c, end_r, end_c)>>
          ELSE IF dentro /\ gs.tablero[end_r][end_c] = Vacia
                         /\ gs.tablero[r][end_c] = <<color_oponente, "p">>
              THEN <<Movimiento(<<r, c>>, <<end_r, end_c>>, gs.tablero, TRUE, FALSE)>>
          ELSE <<>>)
    ELSE <<>>

\* one diagonal of a pawn: an ordinary capture, else an en-passant capture
CapturaPeon(gs, r, c, end_r, end_c, dentro, color_oponente) ==
    IF 0 <= end_c /\ end_c < 8
    THEN (IF dentro /\ gs.tablero[end_r][end_c][1] = color_oponente
              THEN <<Mov(gs, r, c, end_r, end_c)>>
          ELSE IF <<end_r, end_c>> = gs.pos_en_passant_posible
              THEN <<Movimiento(<<r, c>>, <<end_r, end_c>>, gs.tablero, TRUE, FALSE)>>
          ELSE <<>>)
    ELSE <<>>

\* the pawn moves without the two-square advance
GetMovimientosPeonSinDoble(gs, r, c) ==
    LET blanca == gs.tablero[r][c][1] = "w"
        av == IF blanca THEN -1 ELSE 1
        dentro == IF blanca THEN r - 1 >= 0 ELSE r + 1 < 8
        color_oponente == IF blanca THEN "b" ELSE "w"
    IN  (IF dentro /\ gs.tablero[r + av][c] = Vacia
         THEN <<Mov(gs, r, c, r + av, c)>> ELSE <<>>)
        \o CapturaPeon(gs, r, c, r + av, c - 1, dentro, color_oponente)
        \o CapturaPeon(gs, r, c, r + av, c + 1, dentro, color_oponente)

GetMovimientosPeon(gs, r, c) ==
    LET blanca == gs.tablero[r][c][1] = "w"
        av == IF blanca THEN -1 ELSE 1
        dentro == IF blanca THEN r - 1 >= 0 ELSE r + 1 < 8
        fila_salida == IF blanca THEN 6 ELSE 1
        color_oponente == IF blanca THEN "b" ELSE "w"
        avance ==
            IF dentro /\ gs.tablero[r + av][c] = Vacia
            THEN <<Mov(gs, r, c, r + av, c)>>
                 \o (IF r = fila_salida /\ gs.tablero[r + 2 * av][c] = Vacia
                     THEN <<Mov(gs, r, c, r + 2 * av, c)>>
                     ELSE <<>>)
            ELSE <<>>
    IN  avance
        \o CapturaPeon(gs, r, c, r + av, c - 1, dentro, color_oponente)
        \o CapturaPeon(gs, r, c, r + av, c + 1, dentro, color_oponente)

RECURSIVE Deslizar(_, _, _, _, _, _)
Deslizar(gs, r, c, dir, i, color_oponente) ==
    IF i > 7 THEN <<>>
    ELSE
        LET end_r == r + dir[1] * i
            end_c == c + dir[2] * i
        IN  IF ~EnTablero(end_r, end_c) THEN <<>>
            ELSE IF gs.tablero[end_r][end_c] = Vacia
                THEN <<Mov(gs, r, c, end_r, end_c)>> \o Deslizar(gs, r, c, dir, i + 1, color_oponente)
            ELSE IF gs.tablero[end_r][end_c][1] = color_oponente
                THEN <<Mov(gs, r, c, end_r, end_c)>>
            ELSE <<>>

RECURSIVE DeslizarEn(_, _, _, _, _)
DeslizarEn(gs, r, c, direcciones, k) ==
    IF k > Len(direcciones) THEN <<>>
    ELSE Deslizar(gs, r, c, direcciones[k], 1,
                  IF gs.tablero[r][c][1] = "w" THEN "b" ELSE "w")
         \o DeslizarEn(gs, r, c, direcciones, k + 1)

GetMovimientosTorre(gs, r, c) ==
    DeslizarEn(gs, r, c, <<<<-1, 0>>, <<0, -1>>, <<1, 0>>, <<0, 1>>>>, 1)

GetMovimientosAlfil(gs, r, c) ==
    DeslizarEn(gs, r, c, <<<<-1, -1>>, <<-1, 1>>, <<1, -1>>, <<1, 1>>>>, 1)

GetMovimientosReina(gs, r, c) == GetMovimientosTorre(gs, r, c) \o GetMovimientosAlfil(gs, r, c)

\* the loop shared by knight and king: every offset whose square is on the
\* board and not occupied by a friendly piece
RECURSIVE Saltar(_, _, _, _, _)
Saltar(gs, r, c, saltos, k) ==
    IF k > Len(saltos) THEN <<>>
    ELSE
        LET end_r == r + saltos[k][1]
            end_c == c + saltos[k][2]
        IN  (IF EnTablero(end_r, end_c) /\ gs.tablero[end_r][end_c][1] /= gs.tablero[r][c][1]
             THEN <<Mov(gs, r, c, end_r, end_c)>>
             ELSE <<>>)
            \o Saltar(gs, r, c, saltos, k + 1)

GetMovimientosCaballo(gs, r, c) == Saltar(gs, r, c, MovimientosCaballoL, 1)

GetMovimientosRey(gs, r, c) == Saltar(gs, r, c, MovimientosReyAdyacentes, 1)

MovimientosDePieza(gs, fila, col) ==
    LET pieza == gs.tablero[fila][col]
    IN  IF pieza = Vacia THEN <<>>
        ELSE IF (pieza[1] = "w" /\ gs.turno_blancas) \/ (pieza[1] = "b" /\ ~gs.turno_blancas)
        THEN CASE pieza[2] = "p" -> GetMovimientosPeon(gs, fila, col)
               [] pieza[2] = "r" -> GetMovimientosTorre(gs, fila, col)
               [] pieza[2] = "n" -> GetMovimientosCaballo(gs, fila, col)
               [] pieza[2] = "b" -> GetMovimientosAlfil(gs, fila, col)
               [] pieza[2] = "q" -> GetMovimientosReina(gs, fila, col)
               [] pieza[2] = "k" -> GetMovimientosRey(gs, fila, col)
               [] OTHER -> <<>>
        ELSE <<>>

\* the inner loop `for col in range(...)` of one fila
MovimientosDeFila(gs, fila) ==
    MovimientosDePieza(gs, fila, 0) \o MovimientosDePieza(gs, fila, 1)
    \o MovimientosDePieza(gs, fila, 2) \o MovimientosDePieza(gs, fila, 3)
    \o MovimientosDePieza(gs, fila, 4) \o MovimientosDePieza(gs, fila, 5)
    \o MovimientosDePieza(gs, fila, 6) \o MovimientosDePieza(gs, fila, 7)

ObtenerTodosLosMovimientosPosibles(gs) ==
    MovimientosDeFila(gs, 0) \o MovimientosDeFila(gs, 1) \o MovimientosDeFila(gs, 2)
    \o MovimientosDeFila(gs, 3) \o MovimientosDeFila(gs, 4) \o MovimientosDeFila(gs, 5)
    \o MovimientosDeFila(gs, 6) \o MovimientosDeFila(gs, 7)

GetMovimientosEnroque(gs, r, c) ==
    IF gs.jaque THEN <<>>
    ELSE
        LET d == gs.derechos_enroque_actuales
            corto ==
                IF /\ ((gs.turno_blancas /\ d.wks) \/ (~gs.turno_blancas /\ d.bks))
                   /\ gs.tablero[r][c + 1] = Vacia /\ gs.tablero[r][c + 2] = Vacia
                   /\ ~CuadradoBajoAtaque(gs, r, c + 1) /\ ~CuadradoBajoAtaque(gs, r, c + 2)
                THEN <<Movimiento(<<r, c>>, <<r, c + 2>>, gs.tablero, FALSE, TRUE)>>
                ELSE <<>>
            largo ==
                IF /\ ((gs.turno_blancas /\ d.wqs) \/ (~gs.turno_blancas /\ d.bqs))
                   /\ gs.tablero[r][c - 1] = Vacia /\ gs.tablero[r][c - 2] = Vacia
                   /\ gs.tablero[r][c - 3] = Vacia
                   /\ ~CuadradoBajoAtaque(gs, r, c - 1) /\ ~CuadradoBajoAtaque(gs, r, c - 2)
                THEN <<Movimiento(<<r, c>>, <<r, c - 2>>, gs.tablero, FALSE, TRUE)>>
                ELSE <<>>
        IN  corto \o largo

----------------------------------------------------------------------------
(* EstadoJuego.obtener_movimientos_legales *)

Girar(gs) == [gs EXCEPT !.turno_blancas = ~gs.turno_blancas]

\* the end of one pass of the loop body, from the state the jaque test is
\* made on: keep the move if not jaque, flip the turn, deshacer_movimiento
Probar(probado) ==
    [gs |-> DeshacerMovimiento(Girar(probado)), legal |-> ~probado.jaque]

\* one pass of the loop body: hacer_movimiento, flip the turn back,
\* actualizar_pins_y_checks, then the test and the undo
Simular(gs, mov) == Probar(ActualizarPinsYChecks(Girar(HacerMovimiento(gs, mov))))

\* what one pass adds to the list
Pasada(s, mov) == [gs |-> s.gs, movimientos |-> IF s.legal THEN <<mov>> ELSE <<>>]

\* two runs of the loop, one after the other
Unir(primera, segunda) ==
    [movimientos |-> primera.movimientos \o segunda.movimientos, gs |-> segunda.gs]

\* the loop `for mov in movimientos_posibles` over movs[lo..hi], in order, the
\* state of one pass being the state the next pass starts from; the range is
\* split in two halves run one after the other
RECURSIVE Filtrar(_, _, _, _)
RECURSIVE FiltrarDespues(_, _, _, _)
Filtrar(gs, movs, lo, hi) ==
    IF lo > hi THEN [gs |-> gs, movimientos |-> <<>>]
    ELSE IF lo = hi THEN Pasada(Simular(gs, movs[lo]), movs[lo])
    ELSE FiltrarDespues(Filtrar(gs, movs, lo, (lo + hi) \div 2), movs,
                        (lo + hi) \div 2 + 1, hi)

FiltrarDespues(primera, movs, lo, hi) == Unir(primera, Filtrar(primera.gs, movs, lo, hi))

FiltrarTodos(gs, movs) == Filtrar(gs, movs, 1, Len(movs))

\* the castles, appended after the loop with the turn set back to turno_original
ConEnroques(gs, f) ==
    LET g == [f.gs EXCEPT !.turno_blancas = gs.turno_blancas]
    IN  [gs |-> g,
         movimientos |-> f.movimientos
                         \o GetMovimientosEnroque(g, ReyPropio(g)[1], ReyPropio(g)[2])]

\* the end of the function with ahogado set whenever the list is empty
TerminarSinJaque(filtrado) ==
    [gs |-> [filtrado.gs EXCEPT
                !.jaque_mate = FALSE,
                !.ahogado = (Len(filtrado.movimientos) = 0)],
     movimientos |-> filtrado.movimientos]

\* the end of the function: jaque_mate and ahogado from the length of the list
Terminar(filtrado) ==
    [gs |-> [filtrado.gs EXCEPT
                !.jaque_mate = (Len(filtrado.movimientos) = 0) /\ filtrado.gs.jaque,
                !.ahogado = (Len(filtrado.movimientos) = 0) /\ ~filtrado.gs.jaque],
     movimientos |-> filtrado.movimientos]

\* the castles computed as if the king were not in check
EnroquesSinMirarJaque(gs, f) ==
    [gs |-> f.gs,
     movimientos |-> f.movimientos
                     \o GetMovimientosEnroque([gs EXCEPT !.jaque = FALSE],
                                              ReyPropio(gs)[1], ReyPropio(gs)[2])]

\* a list to which the castles are appended in check as well
ObtenerConEnroqueEnJaque(gs) ==
    Terminar(IF gs.jaque
             THEN EnroquesSinMirarJaque(gs,
                      FiltrarTodos(gs, ObtenerTodosLosMovimientosPosibles(gs)))
             ELSE ConEnroques(gs, FiltrarTodos(gs, ObtenerTodosLosMovimientosPosibles(gs))))

ObtenerMovimientosLegales(gs) ==
    Terminar(IF gs.jaque
             THEN (IF Len(gs.checks) = 1
                   THEN FiltrarTodos(gs, ObtenerTodosLosMovimientosPosibles(gs))
                   ELSE FiltrarTodos(gs, GetMovimientosRey(gs, ReyPropio(gs)[1],
                                                           ReyPropio(gs)[2])))
             ELSE ConEnroques(gs, FiltrarTodos(gs, ObtenerTodosLosMovimientosPosibles(gs))))

----------------------------------------------------------------------------
(* chess_ai.py: the evaluation and the alpha-beta search.  The search      *)
(* works on the one EstadoJuego object it is given, so the object is       *)
(* threaded through every step as gs, and the module global               *)
(* PROXIMO_MOVIMIENTO_IA as prox; None of the source is Ninguno.           *)

PIECE_SCORES == [p |-> 10, n |-> 30, b |-> 30, r |-> 50, q |-> 90, k |-> 0]

PROFUNDIDAD_BUSQUEDA == 3

\* the score returned for a checkmate, with either sign
PuntuacionMate == 1000000000

\* float('inf'): above every score evaluar_tablero returns
Infinito == 1000000001

Ninguno == <<>>

ValorPieza(pieza) ==
    IF pieza = Vacia THEN 0
    ELSE IF pieza[1] = "w" THEN PIECE_SCORES[pieza[2]]
    ELSE IF pieza[1] = "b" THEN 0 - PIECE_SCORES[pieza[2]]
    ELSE 0

\* the two loops over fila and col, square k being (k \div 8, k % 8)
RECURSIVE SumarCasillas(_, _)
SumarCasillas(t, k) ==
    IF k > 63 THEN 0
    ELSE ValorPieza(t[k \div 8][k % 8]) + SumarCasillas(t, k + 1)

\* an evaluation that counts the material of a stalemate as well
EvaluarSinAhogado(estado_juego) ==
    IF estado_juego.jaque_mate
    THEN (IF estado_juego.turno_blancas THEN 0 - PuntuacionMate ELSE PuntuacionMate)
    ELSE SumarCasillas(estado_juego.tablero, 0)

EvaluarTablero(estado_juego) ==
    IF estado_juego.jaque_mate
    THEN (IF estado_juego.turno_blancas THEN 0 - PuntuacionMate ELSE PuntuacionMate)
    ELSE IF estado_juego.ahogado THEN 0
    ELSE SumarCasillas(estado_juego.tablero, 0)

Mayor(a, b) == IF a >= b THEN a ELSE b

Menor(a, b) == IF a <= b THEN a ELSE b

\* what a call of the search leaves and returns
Resultado(gs, prox, puntuacion) == [gs |-> gs, prox |-> prox, puntuacion |-> puntuacion]

RECURSIVE EncontrarMovimientoMinimaxAB(_, _, _, _, _, _, _)
RECURSIVE Recorrer(_, _, _, _, _, _, _, _, _)

\* lines 103-104 and 122-123: the loop stops once the window is closed
Seguir(gs, prox, movs, k, profundidad, alpha, beta, maxi, mejor) ==
    IF beta <= alpha THEN Resultado(gs, prox, mejor)
    ELSE Recorrer(gs, prox, movs, k + 1, profundidad, alpha, beta, maxi, mejor)

\* lines 102 and 121: alpha = max(alpha, max_puntuacion), beta = min(beta, min_puntuacion)
Podar(gs, prox, movs, k, profundidad, alpha, beta, maxi, mejor) ==
    IF maxi
    THEN Seguir(gs, prox, movs, k, profundidad, Mayor(alpha, mejor), beta, maxi, mejor)
    ELSE Seguir(gs, prox, movs, k, profundidad, alpha, Menor(beta, mejor), maxi, mejor)

\* a search that records the move at every depth, not at the root only
AnotadoEnCadaNivel(r, movs, k, profundidad, alpha, beta, maxi, mejor) ==
    IF (IF maxi THEN r.puntuacion > mejor ELSE r.puntuacion < mejor)
    THEN Podar(DeshacerMovimiento(r.gs), movs[k],
               movs, k, profundidad, alpha, beta, maxi, r.puntuacion)
    ELSE Podar(DeshacerMovimiento(r.gs), r.prox,
               movs, k, profundidad, alpha, beta, maxi, mejor)

\* lines 94-99 and 113-118: a strictly better score is kept, the move is
\* recorded at the root only, and the simulated move is undone
Anotado(r, movs, k, profundidad, alpha, beta, maxi, mejor) ==
    IF (IF maxi THEN r.puntuacion > mejor ELSE r.puntuacion < mejor)
    THEN Podar(DeshacerMovimiento(r.gs),
               IF profundidad = PROFUNDIDAD_BUSQUEDA THEN movs[k] ELSE r.prox,
               movs, k, profundidad, alpha, beta, maxi, r.puntuacion)
    ELSE Podar(DeshacerMovimiento(r.gs), r.prox,
               movs, k, profundidad, alpha, beta, maxi, mejor)

\* lines 92 and 111: the recursive call on the list computed for the reply
Bajar(res, prox, profundidad, alpha, beta, maxi) ==
    EncontrarMovimientoMinimaxAB(res.gs, prox, res.movimientos, profundidad,
                                 alpha, beta, maxi)

\* one turn of the for loop, from movs[k] on
Recorrer(gs, prox, movs, k, profundidad, alpha, beta, maxi, mejor) ==
    IF k > Len(movs) THEN Resultado(gs, prox, mejor)
    ELSE Anotado(Bajar(ObtenerMovimientosLegales(HacerMovimiento(gs, movs[k])), prox,
                       profundidad - 1, alpha, beta, ~maxi),
                 movs, k, profundidad, alpha, beta, maxi, mejor)

EncontrarMovimientoMinimaxAB(estado_juego, prox, movs, profundidad, alpha, beta, turno_maximizador) ==
    IF profundidad = 0 \/ estado_juego.jaque_mate \/ estado_juego.ahogado
    THEN Resultado(estado_juego, prox, EvaluarTablero(estado_juego))
    ELSE Recorrer(estado_juego, prox, movs, 1, profundidad, alpha, beta,
                  turno_maximizador,
                  IF turno_maximizador THEN 0 - Infinito ELSE Infinito)

\* line 152: the global is what find_best_move returns
Devolver(r) ==
    [gs |-> r.gs, prox |-> r.prox, devuelto |-> r.prox, puntuacion |-> r.puntuacion]

\* lines 138-152 once the list is there; the global was set to None at line 133
Buscar(res) ==
    IF Len(res.movimientos) = 0
    THEN [gs |-> res.gs, prox |-> Ninguno, devuelto |-> Ninguno, puntuacion |-> Ninguno]
    ELSE Devolver(EncontrarMovimientoMinimaxAB(res.gs, Ninguno, res.movimientos,
                                               PROFUNDIDAD_BUSQUEDA, 0 - Infinito,
                                               Infinito, res.gs.turno_blancas))

\* find_best_move(gs); dejado is what PROXIMO_MOVIMIENTO_IA held before the call
FindBestMove(gs, dejado) == Buscar(ObtenerMovimientosLegales(gs))

----------------------------------------------------------------------------
(* The game as a state machine: the caller computes the legal moves of the *)
(* position, applies one of them, or undoes the last move.                 *)

\* the EstadoJuego object as one value, and its assignment to the variables
GS == [tablero |-> tablero,
       turno_blancas |-> turno_blancas,
       historial_movimientos |-> historial_movimientos,
       pos_en_passant_posible |-> pos_en_passant_posible,
       derechos_enroque_actuales |-> derechos_enroque_actuales,
       historial_derechos_enroque |-> historial_derechos_enroque,
       pos_rey_blanco |-> pos_rey_blanco,
       pos_rey_negro |-> pos_rey_negro,
       jaque |-> jaque,
       jaque_mate |-> jaque_mate,
       ahogado |-> ahogado,
       pins |-> pins,
       checks |-> checks]

Asignar(gs) ==
    /\ tablero' = gs.tablero
    /\ turno_blancas' = gs.turno_blancas
    /\ historial_movimientos' = gs.historial_movimientos
    /\ pos_en_passant_posible' = gs.pos_en_passant_posible
    /\ derechos_enroque_actuales' = gs.derechos_enroque_actuales
    /\ historial_derechos_enroque' = gs.historial_derechos_enroque
    /\ pos_rey_blanco' = gs.pos_rey_blanco
    /\ pos_rey_negro' = gs.pos_rey_negro
    /\ jaque' = gs.jaque
    /\ jaque_mate' = gs.jaque_mate
    /\ ahogado' = gs.ahogado
    /\ pins' = gs.pins
    /\ checks' = gs.checks

\* what C1 compares: board, turn, castling rights, en-passant target
Posicion(gs) == <<gs.tablero, gs.turno_blancas, gs.derechos_enroque_actuales,
                  gs.pos_en_passant_posible>>

\* Number of plies the caller may choose freely once a line has been played out.
MaxLibres == 1

\* The caller takes back a move other than the one it has just applied only
\* while the history holds at most this many moves.
MaxRetroceso == 1

\* The games played, each a sequence of move_IDs (fila_inicial, col_inicial,
\* fila_final, col_final as decimal digits; 6444 is e2e4).
LineaReyCapturado == <<6444, 1525, 4434, 415, 3424, 1020, 2415>>
    \* 1.e4 f6 2.e5 Kf7 3.e6 a6 4.exf7
LineaPromocion == <<6747, 1636, 4736, 1727, 3627, 516, 2716, 625, 1607>>
    \* 1.h4 g5 2.hxg5 h6 3.gxh6 Bg7 4.hxg7 Nf6 5.gxh8
LineaEnroque == <<7655, 1737, 6454, 3747, 7564, 4757, 6050, 5766, 7476>>
    \* 1.Nf3 h5 2.e3 h4 3.Be2 h3 4.a3 hxg2 5.O-O
LineaReyVuelve == <<7655, 1020, 6454, 2030, 7564, 3040, 7475, 4050, 7574, 5061>>
    \* 1.Nf3 a6 2.e3 a5 3.Be2 a4 4.Kf1 a3 5.Ke1 axb2
LineaEnPassant == <<6444, 1020, 4434, 1333, 3423>>
    \* 1.e4 a6 2.e5 d5 3.exd6 e.p.
LineaEnPassantTarde == <<6444, 1020, 4434, 1333, 6050, 2030>>
    \* 1.e4 a6 2.e5 d5 3.a3 a5
LineaClavada == <<6444, 1333, 7531, 213, 6050>>
    \* 1.e4 d5 2.Bb5+ Bd7 3.a3

LineaPeonG2 == <<7655, 1737, 6454, 3747, 7564, 4757, 6050, 5766>>
    \* LineaEnroque before White castles

LineaClavadaCorona == <<6343, 1434, 6444, 3443, 4434, 414, 3424, 1423, 2415, 1020, 7564, 304>>
    \* 1.d4 e5 2.e4 exd4 3.e5 Ke7 4.e6 Kd6 5.exf7 a6 6.Be2 Qe8: the queen pins
    \* the bishop on e2 and the pawn on f7 may take her

LineaMateDelLoco == <<6555, 1434, 6646, 347>>   \* 1.f3 e5 2.g4 Qh4#

LineaEnroqueLargo == <<6343, 1020, 7254, 2030, 7152, 3040, 7363, 4050, 7472>>
    \* 1.d4 a6 2.Be3 a5 3.Nc3 a4 4.Qd2 a3 5.O-O-O

LineaFinalDeDama ==
    <<6545, 1737, 6656, 1020, 6242, 1525, 6151, 1232, 6343, 1121, 4332, 2132, 7313,
      113, 6757, 2030, 6444, 1434, 4534, 1334, 5747, 3442, 7542, 10, 7767, 1636,
      4206, 3647, 6747, 706, 6050, 656, 5141, 3241, 5041, 2535, 4435, 347, 7150,
      235, 4130, 5650, 7464, 3513, 7250, 4744, 6475, 1030, 5005, 3070, 7565, 3747,
      532, 7076, 3205, 405, 6576, 4757>>
    \* 1.f4 h5 2.g3 a6 3.c4 f6 4.b3 c5 5.d4 b6 6.dxc5 bxc5 7.Qxd7+ Nxd7 8.h3 a5
    \* 9.e4 e5 10.fxe5 Nxe5 11.h4 Nxc4 12.Bxc4 Ra7 13.Rh2 g5 14.Bxg8 gxh4
    \* 15.Rxh4 Rxg8 16.a3 Rxg3 17.b4 cxb4 18.axb4 f5 19.exf5 Qxh4 20.Na3 Bxf5
    \* 21.bxa5 Rxa3 22.Ke2 Bd7 23.Bxa3 Qe4+ 24.Kf1 Rxa5 25.Bxf8 Ra1+ 26.Kf2 h4
    \* 27.Bc5 Rxg1 28.Bf8 Kxf8 29.Kxg1 h3: queen, bishop and the pawn on h3
    \* against the bare king on g1, White to move

LineaMateDeDama == LineaFinalDeDama \o <<7667, 4466>>   \* 30.Kh2 Qg2#

LineaReyesCercanos ==
    <<6545, 1222, 7152, 1323, 6454, 321, 5231, 2131, 7531, 2231, 7337, 627, 4535,
      2735, 3717, 2333, 1716, 3554, 6252, 1020, 6353, 767, 1615, 415, 7767, 5466,
      6766, 246, 6646, 1525, 7475, 1121, 4644, 1434, 4434, 2534, 7254, 2030, 5421,
      541, 5241, 10, 2130, 1030, 6040, 3140, 5343, 3443, 4130, 4354, 7040, 3343,
      4043, 5443, 6151, 4334, 7564, 3433, 6455>>
    \* 59 plies of chess that leave the white king on f3, a knight on g1 and
    \* pawns on a5 and b3 against the black king on d5 and a knight on b8,
    \* Black to move

LineaReyTomadoEnF4 == LineaReyesCercanos \o <<120, 5141, 3334, 5545, 3445>>
    \* ... Na6, b4 Ke5, Kf4 Kxf4: the white king is taken on f4

LineaReyTomadoEnE4 == LineaReyesCercanos \o <<120, 5544, 3344, 5141, 4445>>
    \* ... Na6, Ke4 Kxe4, b4 Kf4: the white king is taken on e4, and the
    \* board, the turn, the rights and the en-passant target end as above

LineaAhogado ==
    <<6454, 1030, 7337, 20, 3730, 1737, 6747, 2027, 3012, 1525, 1213, 415, 1311,
      353, 7655, 120, 1120, 5317, 2002, 1526, 224>>
    \* 1.e3 a5 2.Qh5 Ra6 3.Qxa5 h5 4.h4 Rah6 5.Qxc7 f6 6.Qxd7+ Kf7 7.Qxb7 Qd3
    \* 8.Nf3 Na6 9.Qxa6 Qh7 10.Qxc8 Kg6 11.Qe6: Black has no move and is not
    \* in check

LineaDobleJaque ==
    <<6444, 1222, 6343, 1333, 7152, 3344, 5244, 625, 7353, 1434, 4334, 330, 7263,
      3034, 7472, 2544, 5303, 403, 6336>>
    \* 1.e4 c6 2.d4 d5 3.Nc3 dxe4 4.Nxe4 Nf6 5.Qd3 e5 6.dxe5 Qa5+ 7.Bd2 Qxe5
    \* 8.O-O-O Nxe4 9.Qd8+ Kxd8 10.Bg5++: bishop and rook check at once

LineaJaqueConEnroque == <<6343, 1424, 7655, 625, 6454, 1020, 7553, 541>>
    \* 1.d4 e6 2.Nf3 Nf6 3.e3 a6 4.Bd3 Bb4+: White is in check with f1 and g1
    \* empty and both castling rights

Lineas == {<<>>, LineaMateDeDama, LineaEnroqueLargo, LineaReyCapturado, LineaPromocion, LineaEnroque, LineaReyVuelve,
           LineaEnPassant, LineaEnPassantTarde, LineaClavada, LineaPeonG2,
           LineaClavadaCorona, LineaMateDelLoco, LineaReyTomadoEnF4,
           LineaReyTomadoEnE4, LineaDobleJaque, LineaJaqueConEnroque,
           LineaAhogado}

\* the lines after which the caller goes on freely
LineasLibres == {<<>>, LineaEnPassantTarde, LineaClavada, LineaPeonG2}

IDs(historial) == [k \in 1..Len(historial) |-> historial[k].move_ID]

EsPrefijo(a, b) == Len(a) <= Len(b) /\ \A k \in 1..Len(a) : a[k] = b[k]

\* the caller's choice of the next move: follow a line, or play freely for
\* MaxLibres plies after the end of one
Elegible(historial, m) ==
    LET h == IDs(historial)
    IN  \/ \E l \in Lineas :
               Len(h) < Len(l) /\ EsPrefijo(h, l) /\ m.move_ID = l[Len(h) + 1]
        \/ \E l \in LineasLibres :
               EsPrefijo(l, h) /\ Len(h) < Len(l) + MaxLibres

MENU_STATE == 0
GAME_STATE == 1

JUGADOR_HUMANO_BLANCAS == TRUE
JUGADOR_HUMANO_NEGRAS == FALSE

MovimientoNulo == Movimiento(<<6, 4>>, <<4, 4>>, TableroInicial, FALSE, FALSE)

Init ==
    /\ tablero = EstadoInicial.tablero
    /\ turno_blancas = EstadoInicial.turno_blancas
    /\ historial_movimientos = EstadoInicial.historial_movimientos
    /\ pos_en_passant_posible = EstadoInicial.pos_en_passant_posible
    /\ derechos_enroque_actuales = EstadoInicial.derechos_enroque_actuales
    /\ historial_derechos_enroque = EstadoInicial.historial_derechos_enroque
    /\ pos_rey_blanco = EstadoInicial.pos_rey_blanco
    /\ pos_rey_negro = EstadoInicial.pos_rey_negro
    /\ jaque = EstadoInicial.jaque
    /\ jaque_mate = EstadoInicial.jaque_mate
    /\ ahogado = EstadoInicial.ahogado
    /\ pins = EstadoInicial.pins
    /\ checks = EstadoInicial.checks
    /\ movimientos_legales = <<>>
    /\ ultima_op = "nuevo"
    /\ antes = <<>>
    /\ previo = <<>>
    /\ PROXIMO_MOVIMIENTO_IA = Ninguno
    /\ movimiento_ia = Ninguno
    /\ puntuacion_ia = Ninguno
    /\ dejado_ia = Ninguno
    /\ mov_a = MovimientoNulo
    /\ mov_b = MovimientoNulo
    /\ iguales = "?"
    /\ estado_juego_actual = GAME_STATE
    /\ tecla = ""

\* the step of main that is not a key press, in the game screen
EnJuego ==
    /\ estado_juego_actual = GAME_STATE
    /\ tecla' = ""
    /\ UNCHANGED estado_juego_actual

\* movimientos = gs.obtener_movimientos_legales()
Obtener ==
    /\ EnJuego
    /\ ultima_op /= "obtener"
    /\ LET res == ObtenerMovimientosLegales(GS)
       IN  /\ Asignar(res.gs)
           /\ movimientos_legales' = res.movimientos
    /\ ultima_op' = "obtener"
    /\ antes' = Posicion(GS)
    /\ previo' = GS
    /\ UNCHANGED <<iavars, movvars>>

\* gs.hacer_movimiento(m) for a move m of the list just computed
Hacer ==
    /\ EnJuego
    /\ ultima_op = "obtener"
    /\ \E k \in 1..Len(movimientos_legales) :
           /\ Elegible(historial_movimientos, movimientos_legales[k])
           /\ Asignar(HacerMovimiento(GS, movimientos_legales[k]))
    /\ movimientos_legales' = <<>>
    /\ ultima_op' = "hacer"
    /\ antes' = Posicion(GS)
    /\ previo' = GS
    /\ UNCHANGED <<iavars, movvars>>

\* gs.deshacer_movimiento()
Deshacer ==
    /\ EnJuego
    /\ \/ ultima_op = "hacer"
       \/ Len(historial_movimientos) <= MaxRetroceso
       \/ jaque_mate
       \/ ahogado
    /\ Asignar(DeshacerMovimiento(GS))
    /\ movimientos_legales' = <<>>
    /\ ultima_op' = "deshacer"
    /\ antes' = IF ultima_op = "hacer" THEN antes ELSE <<>>
    /\ previo' = GS
    /\ UNCHANGED <<iavars, movvars>>

\* the squares a piece can be picked up from and dropped on
CasillasTablero == (0..7) \X (0..7)

\* the move main builds from the two squares of a drag
Arrastrado(origen, destino) == Movimiento(origen, destino, tablero, FALSE, FALSE)

\* the drags main accepts: a piece of the side to move is picked up, and it
\* is dropped on another square of the board
Arrastres ==
    {par \in CasillasTablero \X CasillasTablero :
        /\ tablero[par[1][1]][par[1][2]][1] = (IF turno_blancas THEN "w" ELSE "b")
        /\ par[1] /= par[2]}

\* ajedrez.py, MOUSEBUTTONUP with a piece of the side to move picked up on
\* one square and dropped on another: the move built from the two squares is
\* applied if it is `in` the list, and nothing happens otherwise
Soltar ==
    /\ EnJuego
    /\ ultima_op = "obtener"
    /\ ~jaque_mate /\ ~ahogado
    /\ \/ \E par \in Arrastres :
              /\ EnLista(Arrastrado(par[1], par[2]), movimientos_legales)
              /\ Elegible(historial_movimientos, Arrastrado(par[1], par[2]))
              /\ Asignar(HacerMovimiento(GS, Arrastrado(par[1], par[2])))
              /\ ultima_op' = "soltar"
       \/ /\ {par \in Arrastres :
                 ~EnLista(Arrastrado(par[1], par[2]), movimientos_legales)} /= {}
          /\ UNCHANGED gsvars
          /\ ultima_op' = "rechazado"
    /\ previo' = GS
    /\ UNCHANGED <<movimientos_legales, antes, iavars, movvars>>

\* The games after which the caller asks the search for a move.
LineasIA == {LineaMateDelLoco, LineaFinalDeDama, LineaMateDeDama, LineaReyTomadoEnF4,
             LineaReyTomadoEnE4}

AsignarIA(r) ==
    /\ Asignar(r.gs)
    /\ PROXIMO_MOVIMIENTO_IA' = r.prox
    /\ movimiento_ia' = r.devuelto
    /\ puntuacion_ia' = r.puntuacion
    /\ dejado_ia' = PROXIMO_MOVIMIENTO_IA

\* movimiento_ia = chess_ai.find_best_move(gs)
LlamarIA ==
    /\ EnJuego
    /\ ultima_op = "obtener"
    /\ IDs(historial_movimientos) \in LineasIA
    /\ AsignarIA(FindBestMove(GS, PROXIMO_MOVIMIENTO_IA))
    /\ ultima_op' = "find_best_move"
    /\ previo' = GS
    /\ UNCHANGED <<movimientos_legales, antes, movvars>>

\* ajedrez.py line 154-155: the side to move is played by the search
TurnoIA ==
    \/ turno_blancas /\ ~JUGADOR_HUMANO_BLANCAS
    \/ ~turno_blancas /\ ~JUGADOR_HUMANO_NEGRAS

\* ajedrez.py line 185: the condition every mouse and key handler of the
\* game screen is nested in
EntradaAbierta == ~jaque_mate /\ ~ahogado /\ ~TurnoIA

\* movimientos_legales = juego_actual.obtener_movimientos_legales();
\* juego_actual.actualizar_pins_y_checks(), for the juego_actual just built
Empezar(juego_actual) ==
    \E juego \in {juego_actual} :
        \E res \in {ObtenerMovimientosLegales(juego)} :
            \E gs \in {ActualizarPinsYChecks(res.gs)} :
                /\ Asignar(gs)
                /\ movimientos_legales' = res.movimientos
                /\ ultima_op' = "obtener"
                /\ antes' = Posicion(juego)
                /\ previo' = juego

\* juego_actual = chess_engine.EstadoJuego(), and the two calls on it
EmpezarJuego == Empezar(EstadoInicial)

\* Events are read at the top of a pass of the loop, when the drawing step of
\* the pass before has computed the list of the position.
SePulsa ==
    /\ estado_juego_actual = GAME_STATE
    /\ ultima_op = "obtener"

\* a KEYDOWN event with key K_r in the game screen (lines 184-185, 261, 270-279)
PulsarR ==
    /\ SePulsa
    /\ tecla' = "r"
    /\ \/ /\ EntradaAbierta
          /\ EmpezarJuego
       \/ /\ ~EntradaAbierta
          /\ UNCHANGED <<gsvars, movimientos_legales, ultima_op, antes, previo>>
    /\ UNCHANGED <<estado_juego_actual, iavars, movvars>>

\* a KEYDOWN event with key K_ESCAPE in the game screen (lines 184-185, 261,
\* 280-289); juego_actual = None leaves the object behind, out of reach of the
\* menu, whose one way out builds a new one
PulsarEscape ==
    /\ SePulsa
    /\ tecla' = "escape"
    /\ \/ /\ EntradaAbierta
          /\ estado_juego_actual' = MENU_STATE
          /\ movimientos_legales' = <<>>
       \/ /\ ~EntradaAbierta
          /\ UNCHANGED <<estado_juego_actual, movimientos_legales>>
    /\ UNCHANGED <<gsvars, ultima_op, antes, previo, iavars, movvars>>

\* a click on "Jugar" in the menu (lines 161-180)
ClickJugar ==
    /\ estado_juego_actual = MENU_STATE
    /\ estado_juego_actual' = GAME_STATE
    /\ EmpezarJuego
    /\ tecla' = ""
    /\ UNCHANGED <<iavars, movvars>>

Next == Obtener \/ Hacer \/ Deshacer \/ Soltar \/ LlamarIA

Spec == Init /\ [][Next]_vars

\* The screens of main: the moves of a game, the list computed after each, and
\* the R and Escape keys and the click on "Jugar".
NextPantalla == Obtener \/ Hacer \/ PulsarR \/ PulsarEscape \/ ClickJugar

SpecPantalla == Init /\ [][NextPantalla]_vars

----------------------------------------------------------------------------
(* Comparing two Movimiento objects *)

\* after 1.Nf3 Nf6 2.e3 Ng8 3.Be2 Nf6: white may castle short
TableroEnroque ==
    [TableroInicial EXCEPT ![7][6] = Vacia, ![5][5] = <<"w", "n">>,
                           ![5][4] = <<"w", "p">>, ![6][4] = <<"w", "b">>,
                           ![7][5] = Vacia,
                           ![0][6] = Vacia, ![2][5] = <<"b", "n">>]

\* after 1.e4 a6 2.e5 d5: white may take en passant on d6
TableroPaso ==
    [TableroInicial EXCEPT ![6][4] = Vacia, ![3][4] = <<"w", "p">>,
                           ![1][0] = Vacia, ![2][0] = <<"b", "p">>,
                           ![1][3] = Vacia, ![3][3] = <<"b", "p">>]

\* after 1.b4 Nf6 2.b5 Ng8 3.b6 Nf6 4.bxa7 Ng8: a white pawn stands on a7
TableroConPeon ==
    [TableroInicial EXCEPT ![6][1] = Vacia, ![1][0] = <<"w", "p">>]

\* the moves built from two clicks, which carry no flag argument, and the
\* two flagged moves the generators build on the same squares
MovimientosDePrueba ==
    {Movimiento(o, d, tab, FALSE, FALSE) :
        o \in {<<7, 4>>, <<3, 4>>, <<1, 0>>},
        d \in {<<7, 6>>, <<2, 3>>, <<0, 1>>},
        tab \in {TableroInicial, TableroEnroque, TableroPaso, TableroConPeon}}
    \cup {Movimiento(<<7, 4>>, <<7, 6>>, TableroEnroque, FALSE, TRUE),
          Movimiento(<<3, 4>>, <<2, 3>>, TableroPaso, TRUE, FALSE)}

InitMov ==
    /\ tablero = EstadoInicial.tablero
    /\ turno_blancas = EstadoInicial.turno_blancas
    /\ historial_movimientos = EstadoInicial.historial_movimientos
    /\ pos_en_passant_posible = EstadoInicial.pos_en_passant_posible
    /\ derechos_enroque_actuales = EstadoInicial.derechos_enroque_actuales
    /\ historial_derechos_enroque = EstadoInicial.historial_derechos_enroque
    /\ pos_rey_blanco = EstadoInicial.pos_rey_blanco
    /\ pos_rey_negro = EstadoInicial.pos_rey_negro
    /\ jaque = EstadoInicial.jaque
    /\ jaque_mate = EstadoInicial.jaque_mate
    /\ ahogado = EstadoInicial.ahogado
    /\ pins = EstadoInicial.pins
    /\ checks = EstadoInicial.checks
    /\ movimientos_legales = <<>>
    /\ ultima_op = "nuevo"
    /\ antes = <<>>
    /\ previo = <<>>
    /\ PROXIMO_MOVIMIENTO_IA = Ninguno
    /\ movimiento_ia = Ninguno
    /\ puntuacion_ia = Ninguno
    /\ dejado_ia = Ninguno
    /\ mov_a \in MovimientosDePrueba
    /\ mov_b \in MovimientosDePrueba
    /\ iguales = "?"
    /\ estado_juego_actual = GAME_STATE
    /\ tecla = ""

\* iguales = (mov_a == mov_b)
Comparar ==
    /\ iguales = "?"
    /\ iguales' = IF MovEq(mov_a, mov_b) THEN "True" ELSE "False"
    /\ UNCHANGED <<gsvars, movimientos_legales, ultima_op, antes, previo, iavars, mov_a, mov_b,
                   pantvars>>

NextMov == Comparar

SpecMov == InitMov /\ [][NextMov]_vars

----------------------------------------------------------------------------
(* The rules of chess, as the properties below refer to them *)

Casillas == (0..7) \X (0..7)

En(tab, sq) == tab[sq[1]][sq[2]]

Max(a, b) == IF a >= b THEN a ELSE b

Signo(x) == IF x > 0 THEN 1 ELSE IF x < 0 THEN -1 ELSE 0

Oponente(color) == IF color = "w" THEN "b" ELSE "w"

\* every square strictly between two squares of one rank, file or diagonal is empty
CaminoLibre(tab, desde, hasta) ==
    LET dr == hasta[1] - desde[1]
        dc == hasta[2] - desde[2]
    IN  \A k \in 1..(Max(Abs(dr), Abs(dc)) - 1) :
            tab[desde[1] + k * Signo(dr)][desde[2] + k * Signo(dc)] = Vacia

\* the piece standing on `desde` attacks the square `hasta`
Ataca(tab, desde, hasta) ==
    LET p == En(tab, desde)
        dr == hasta[1] - desde[1]
        dc == hasta[2] - desde[2]
        recta == (dr = 0) /= (dc = 0)
        diagonal == Abs(dr) = Abs(dc) /\ dr /= 0
    IN  CASE p[2] = "p" -> Abs(dc) = 1 /\ dr = (IF p[1] = "w" THEN -1 ELSE 1)
          [] p[2] = "n" -> {Abs(dr), Abs(dc)} = {1, 2}
          [] p[2] = "k" -> Max(Abs(dr), Abs(dc)) = 1
          [] p[2] = "r" -> recta /\ CaminoLibre(tab, desde, hasta)
          [] p[2] = "b" -> diagonal /\ CaminoLibre(tab, desde, hasta)
          [] p[2] = "q" -> (recta \/ diagonal) /\ CaminoLibre(tab, desde, hasta)
          [] OTHER -> FALSE

\* the squares of the pieces of `color` that attack `sq`
Atacantes(tab, color, sq) ==
    {d \in Casillas : En(tab, d)[1] = color /\ Ataca(tab, d, sq)}

CasillasDe(tab, pieza) == {sq \in Casillas : En(tab, sq) = pieza}

Bando == IF turno_blancas THEN "w" ELSE "b"

Ultimo(sec) == sec[Len(sec)]

Elementos(sec) == {sec[k] : k \in 1..Len(sec)}

\* the board obtener_movimientos_legales was called on
TableroConsultado == antes[1]

----------------------------------------------------------------------------
(* Properties *)

\* C1: hacer_movimiento(m) for a move m of the legal list, followed at once
\* by deshacer_movimiento(), restores the board, the turn flag, the castling
\* rights and the en-passant target of before.
C1_HacerDeshacerRestaura ==
    (ultima_op = "deshacer" /\ antes /= <<>>) => Posicion(GS) = antes

\* C2: no move of the legal list leaves the mover's own king attacked by an
\* enemy piece under the rules of chess.
C2_LegalesDejanReyASalvo ==
    ultima_op = "obtener" =>
        \A m \in Elementos(movimientos_legales) :
            LET t == TableroTras(TableroConsultado, m)
            IN  \A rey \in CasillasDe(t, <<Bando, "k">>) :
                    Atacantes(t, Oponente(Bando), rey) = {}

\* C3: after every hacer_movimiento and deshacer_movimiento, jaque is true
\* exactly when the king of the side to move is attacked, and checks holds
\* exactly the squares of the attacking pieces.
C3_JaqueExacto ==
    ultima_op \in {"hacer", "deshacer"} =>
        LET atacantes == UNION {Atacantes(tablero, Oponente(Bando), rey) :
                                   rey \in CasillasDe(tablero, <<Bando, "k">>)}
        IN  /\ jaque <=> (atacantes /= {})
            /\ Elementos(checks) = atacantes

\* C4: the board always holds exactly one white king and one black king.
C4_UnReyPorColor ==
    /\ Cardinality(CasillasDe(tablero, <<"w", "k">>)) = 1
    /\ Cardinality(CasillasDe(tablero, <<"b", "k">>)) = 1

\* C5: after every hacer_movimiento and deshacer_movimiento, pos_rey_blanco
\* is the square holding the white king and pos_rey_negro the square holding
\* the black king.
C5_CacheDeReyes ==
    ultima_op \in {"hacer", "deshacer"} =>
        /\ En(tablero, pos_rey_blanco) = <<"w", "k">>
        /\ En(tablero, pos_rey_negro) = <<"b", "k">>

MismosCampos(a, b) ==
    /\ a.fila_inicial = b.fila_inicial /\ a.col_inicial = b.col_inicial
    /\ a.fila_final = b.fila_final /\ a.col_final = b.col_final
    /\ a.es_promocion_peon = b.es_promocion_peon
    /\ a.es_en_passant_movimiento = b.es_en_passant_movimiento
    /\ a.es_movimiento_enroque = b.es_movimiento_enroque

\* C6: two Movimiento objects compare equal if and only if they have the
\* same origin, the same destination and the same promotion, en-passant and
\* castle flags.
C6_IgualdadPorCamposYBanderas ==
    iguales /= "?" => ((iguales = "True") <=> MismosCampos(mov_a, mov_b))

\* C7: the legal list holds no castling move when the king of the side to
\* move is attacked, or when a square the king crosses or lands on is
\* attacked by an enemy piece under the rules of chess.
C7_EnroqueSinCasillasAtacadas ==
    ultima_op = "obtener" =>
        \A m \in Elementos(movimientos_legales) :
            m.es_movimiento_enroque =>
                \A c \in (IF m.col_final = 6 THEN {4, 5, 6} ELSE {4, 3, 2}) :
                    Atacantes(TableroConsultado, Oponente(Bando), <<m.fila_inicial, c>>) = {}

EnroquesEnLista == {m \in Elementos(movimientos_legales) : m.es_movimiento_enroque}

\* C8: the legal list holds no castling move for a wing when the king of
\* the side to move has moved in the current history (even if it moved back),
\* when that wing's rook has moved from its home square or been captured on
\* it, or when a square between king and rook is occupied (two squares
\* king-side, three queen-side).
C8_EnroqueSoloConDerechos ==
    ultima_op = "obtener" =>
        \A m \in EnroquesEnLista :
            LET fila == IF Bando = "w" THEN 7 ELSE 0
                corto == m.col_final = 6
                esquina == IF corto THEN 7 ELSE 0
                entre == IF corto THEN {5, 6} ELSE {1, 2, 3}
            IN  /\ \A h \in Elementos(historial_movimientos) :
                       /\ h.pieza_movida /= <<Bando, "k">>
                       /\ ~(/\ h.pieza_movida = <<Bando, "r">>
                            /\ <<h.fila_inicial, h.col_inicial>> = <<fila, esquina>>)
                       /\ ~(/\ h.pieza_capturada = <<Bando, "r">>
                            /\ ~h.es_en_passant_movimiento
                            /\ <<h.fila_final, h.col_final>> = <<fila, esquina>>)
                /\ \A c \in entre : TableroConsultado[fila][c] = Vacia

\* the white king has moved and come back to e1, f1 and g1 are empty, the
\* rook stands on h1, and the list just computed offers no castle
C8_ReyVolvioSinEnroque ==
    /\ ultima_op = "obtener"
    /\ turno_blancas
    /\ \E h \in Elementos(historial_movimientos) : h.pieza_movida = <<"w", "k">>
    /\ tablero[7][4] = <<"w", "k">>
    /\ tablero[7][5] = Vacia
    /\ tablero[7][6] = Vacia
    /\ tablero[7][7] = <<"w", "r">>
    /\ movimientos_legales /= <<>>
    /\ EnroquesEnLista = {}

EnPassantEnLista == {m \in Elementos(movimientos_legales) : m.es_en_passant_movimiento}

\* C9: an en-passant capture is in the generated moves only when the ply
\* just before was a two-square push of an enemy pawn onto the file of the
\* capture's destination; applying it puts the capturing pawn on the
\* jumped-over square and empties exactly the square of the pawn that made
\* the double push, every other square but the origin staying as it was.
C9_EnPassantSoloTrasDoblePaso ==
    /\ ultima_op = "obtener" =>
           \A m \in EnPassantEnLista :
               /\ historial_movimientos /= <<>>
               /\ LET u == Ultimo(historial_movimientos)
                  IN  /\ u.pieza_movida = <<Oponente(Bando), "p">>
                      /\ Abs(u.fila_final - u.fila_inicial) = 2
                      /\ u.col_final = m.col_final
                      /\ u.fila_final = m.fila_inicial
    /\ (/\ ultima_op = "hacer"
        /\ Ultimo(historial_movimientos).es_en_passant_movimiento) =>
           /\ Len(historial_movimientos) >= 2
           /\ LET m == Ultimo(historial_movimientos)
                  u == historial_movimientos[Len(historial_movimientos) - 1]
                  origen == <<m.fila_inicial, m.col_inicial>>
                  destino == <<m.fila_final, m.col_final>>
                  capturado == <<m.fila_inicial, m.col_final>>
              IN  /\ destino = <<(u.fila_inicial + u.fila_final) \div 2, u.col_inicial>>
                  /\ capturado = <<u.fila_final, u.col_final>>
                  /\ En(antes[1], capturado) = u.pieza_movida
                  /\ En(tablero, capturado) = Vacia
                  /\ En(tablero, destino) = m.pieza_movida
                  /\ En(tablero, origen) = Vacia
                  /\ \A sq \in Casillas \ {origen, destino, capturado} :
                         En(tablero, sq) = En(antes[1], sq)

\* an en-passant capture has just been applied
C9_EnPassantHecho ==
    /\ ultima_op = "hacer"
    /\ Ultimo(historial_movimientos).es_en_passant_movimiento

DireccionesDeRayo == {d \in (-1..1) \X (-1..1) : d /= <<0, 0>>}

Sobre(rey, d, k) == <<rey[1] + k * d[1], rey[2] + k * d[2]>>

\* the own piece i steps from the king along d stands alone between the
\* king and an enemy rook, bishop or queen j steps away on the matching ray
Clavada(tab, color, rey, d, i, j) ==
    /\ i < j
    /\ Sobre(rey, d, j) \in Casillas
    /\ En(tab, Sobre(rey, d, i))[1] = color
    /\ En(tab, Sobre(rey, d, j))[1] = Oponente(color)
    /\ En(tab, Sobre(rey, d, j))[2] \in
           (IF d[1] = 0 \/ d[2] = 0 THEN {"r", "q"} ELSE {"b", "q"})
    /\ \A k \in (1..(j - 1)) \ {i} : En(tab, Sobre(rey, d, k)) = Vacia

ClavadasAlConsultar ==
    {x \in CasillasDe(TableroConsultado, <<Bando, "k">>) \X DireccionesDeRayo \X (1..6) \X (2..7) :
        Clavada(TableroConsultado, Bando, x[1], x[2], x[3], x[4])}

MovimientosDesde(sq) ==
    {m \in Elementos(movimientos_legales) : <<m.fila_inicial, m.col_inicial>> = sq}

\* C10: when an own piece stands alone between the king of the side to move
\* and an enemy rook, bishop or queen on the matching ray, every move of
\* that piece in the legal list ends on the ray between the king and the
\* attacker, the attacker's square included.
C10_ClavadaNoSaleDelRayo ==
    ultima_op = "obtener" =>
        \A x \in ClavadasAlConsultar :
            \A m \in MovimientosDesde(Sobre(x[1], x[2], x[3])) :
                \E k \in 1..x[4] : <<m.fila_final, m.col_final>> = Sobre(x[1], x[2], k)

RECURSIVE SumaRespuestas(_, _, _)
SumaRespuestas(gs, movs, k) ==
    IF k > Len(movs) THEN 0
    ELSE Len(ObtenerMovimientosLegales(HacerMovimiento(gs, movs[k])).movimientos)
         + SumaRespuestas(gs, movs, k + 1)

\* C12: from the starting position the legal list has exactly 20 moves, and
\* the replies to these moves number exactly 400 in all.
C12_VeinteYCuatrocientos ==
    (ultima_op = "obtener" /\ historial_movimientos = <<>>) =>
        /\ Len(movimientos_legales) = 20
        /\ SumaRespuestas(GS, movimientos_legales, 1) = 400

\* the legal moves of the starting position have been computed: 20 moves,
\* the first of them the a-pawn's single step
C12_ListaInicial ==
    /\ ultima_op = "obtener"
    /\ historial_movimientos = <<>>
    /\ Len(movimientos_legales) = 20
    /\ movimientos_legales[1].move_ID = 6050

\* Minimax without pruning over the game tree: the value of a position is
\* the best, for the side to move, of the values of the positions its legal
\* moves lead to, each reached from the position itself by hacer_movimiento
\* and obtener_movimientos_legales; the moves are taken in list order and the
\* first one that strictly improves the best value is kept.  The result is
\* <<value, index of the move kept>>.
RECURSIVE Minimax(_, _, _, _)
RECURSIVE MejorPar(_, _, _, _, _, _)

ElegirMejor(par, v, k, maxi) ==
    IF (IF maxi THEN v > par[1] ELSE v < par[1]) THEN <<v, k>> ELSE par

ValorCon(res, profundidad, maxi) == Minimax(res.gs, res.movimientos, profundidad, maxi)[1]

MejorPar(gs, movs, k, profundidad, maxi, par) ==
    IF k > Len(movs) THEN par
    ELSE MejorPar(gs, movs, k + 1, profundidad, maxi,
                  ElegirMejor(par,
                              ValorCon(ObtenerMovimientosLegales(HacerMovimiento(gs, movs[k])),
                                       profundidad - 1, ~maxi),
                              k, maxi))

Minimax(gs, movs, profundidad, maxi) ==
    IF profundidad = 0 \/ gs.jaque_mate \/ gs.ahogado THEN <<EvaluarTablero(gs), 0>>
    ELSE MejorPar(gs, movs, 1, profundidad, maxi,
                  <<IF maxi THEN 0 - Infinito ELSE Infinito, 0>>)

MinimaxDesde(res) ==
    Minimax(res.gs, res.movimientos, PROFUNDIDAD_BUSQUEDA, res.gs.turno_blancas)

CoincideCon(res, par) ==
    /\ puntuacion_ia = par[1]
    /\ movimiento_ia = res.movimientos[par[2]]

\* C13: the search started by find_best_move with alpha = -infinity and
\* beta = +infinity returns the score of the minimax without pruning over
\* the game tree of the position, and records the root move that minimax keeps.
C13_PodaIgualAMinimax ==
    (ultima_op = "find_best_move" /\ movimiento_ia /= Ninguno) =>
        CoincideCon(ObtenerMovimientosLegales(previo),
                    MinimaxDesde(ObtenerMovimientosLegales(previo)))

\* C14: deshacer_movimiento called with an empty history changes nothing:
\* board, turn, castling rights and their stack, en-passant target, king
\* squares and the check, checkmate and stalemate flags are as before the
\* call (and the call returns normally, the history staying empty).
C14_DeshacerSinHistorial ==
    (ultima_op = "deshacer" /\ previo.historial_movimientos = <<>>) =>
        /\ tablero = previo.tablero
        /\ turno_blancas = previo.turno_blancas
        /\ derechos_enroque_actuales = previo.derechos_enroque_actuales
        /\ historial_derechos_enroque = previo.historial_derechos_enroque
        /\ pos_en_passant_posible = previo.pos_en_passant_posible
        /\ pos_rey_blanco = previo.pos_rey_blanco
        /\ pos_rey_negro = previo.pos_rey_negro
        /\ jaque = previo.jaque
        /\ jaque_mate = previo.jaque_mate
        /\ ahogado = previo.ahogado
        /\ historial_movimientos = <<>>

\* deshacer_movimiento has been called on a game whose history was empty,
\* White to move, and the whole object is as it was
C14_DeshacerEnVacio ==
    /\ ultima_op = "deshacer"
    /\ previo.historial_movimientos = <<>>
    /\ previo.turno_blancas
    /\ Len(previo.historial_derechos_enroque) = 1
    /\ GS = previo

\* C15: find_best_move returns None exactly when the side to move has no
\* legal move, and otherwise a move of the legal list of the position it was
\* called on.
C15_NingunoSoloSinMovimientos ==
    ultima_op = "find_best_move" =>
        /\ movimiento_ia = Ninguno
               <=> ObtenerMovimientosLegales(previo).movimientos = <<>>
        /\ movimiento_ia /= Ninguno
               => movimiento_ia \in Elementos(ObtenerMovimientosLegales(previo).movimientos)

\* find_best_move has been asked for the bare white king and has returned
\* Kf2, a move of the list computed for that position
C15_JugadaDeLaLista ==
    /\ ultima_op = "find_best_move"
    /\ IDs(historial_movimientos) = LineaFinalDeDama
    /\ movimiento_ia /= Ninguno
    /\ movimiento_ia.move_ID = 7665
    /\ movimiento_ia \in Elementos(movimientos_legales)

\* None both, or moves with the same origin and destination
MismoMovimiento(a, b) ==
    IF b = Ninguno THEN a = Ninguno
    ELSE a /= Ninguno /\ a.move_ID = b.move_ID

\* the move with this move_ID of the list computed for the position, applied
HacerElegido(res, id) ==
    HacerMovimiento(res.gs, CHOOSE m \in Elementos(res.movimientos) : m.move_ID = id)

RECURSIVE Jugar(_, _, _)
\* the game state after the moves of linea from the k-th on
Jugar(gs, linea, k) ==
    IF k > Len(linea) THEN gs
    ELSE Jugar(HacerElegido(ObtenerMovimientosLegales(gs), linea[k]), linea, k + 1)

\* the game state the search is called on after the game linea
EstadoTras(linea) == ObtenerMovimientosLegales(Jugar(EstadoInicial, linea, 1)).gs

\* on a game state with the position of the one searched, the search returns
\* a move with the origin and destination of the one returned
MismaJugadaEn(otro) ==
    Posicion(otro) = Posicion(previo)
        => MismoMovimiento(movimiento_ia, FindBestMove(otro, Ninguno).devuelto)

\* C16: find_best_move is deterministic: called again on the same game state
\* with PROXIMO_MOVIMIENTO_IA at None, or on the game state another game of
\* the same length has reached with the same board, turn, castling rights
\* and en-passant target, it returns a move with the same origin and
\* destination.
C16_MismoEstadoMismaJugada ==
    ultima_op = "find_best_move" =>
        /\ MismoMovimiento(movimiento_ia, FindBestMove(previo, Ninguno).devuelto)
        /\ \A l \in LineasIA :
               (Len(l) = Len(previo.historial_movimientos)
                    /\ l /= IDs(previo.historial_movimientos))
                   => MismaJugadaEn(EstadoTras(l))

\* find_best_move has been called on the mated side while the global still
\* held the move an earlier search had recorded, and has returned None
C16_MateConBusquedaAnterior ==
    /\ ultima_op = "find_best_move"
    /\ IDs(historial_movimientos) = LineaMateDeDama
    /\ dejado_ia /= Ninguno
    /\ movimiento_ia = Ninguno

\* C17: a human move is applied only if it is in the legal list, the board
\* it leaves is the board that applying the member of the list with these
\* squares leaves (a castle moves the rook, an en-passant capture removes the
\* pawn), and a rejected attempt leaves the game state unchanged.
C17_SoltarComoLaLista ==
    /\ ultima_op = "soltar" =>
           /\ EnLista(Ultimo(historial_movimientos), movimientos_legales)
           /\ \A m \in Elementos(movimientos_legales) :
                  MovEq(m, Ultimo(historial_movimientos))
                      => tablero = HacerMovimiento(previo, m).tablero
    /\ ultima_op = "rechazado" => GS = previo

\* C18: obtener_movimientos_legales leaves the position as it found it:
\* board, turn, castling rights and their stack, en-passant target, king
\* squares and move history, promotions among the candidate moves included.
C18_ObtenerNoCambiaNada ==
    ultima_op = "obtener" =>
        /\ tablero = previo.tablero
        /\ turno_blancas = previo.turno_blancas
        /\ derechos_enroque_actuales = previo.derechos_enroque_actuales
        /\ historial_derechos_enroque = previo.historial_derechos_enroque
        /\ pos_en_passant_posible = previo.pos_en_passant_posible
        /\ pos_rey_blanco = previo.pos_rey_blanco
        /\ pos_rey_negro = previo.pos_rey_negro
        /\ historial_movimientos = previo.historial_movimientos

\* the last move of a history, as squares
Origen(historial) == <<Ultimo(historial).fila_inicial, Ultimo(historial).col_inicial>>

Destino(historial) == <<Ultimo(historial).fila_final, Ultimo(historial).col_final>>

\* C19: hacer_movimiento of a promotion puts the mover's queen on the
\* destination square; deshacer_movimiento then puts the pawn back on the
\* origin square and leaves on the destination exactly what it held before.
C19_CoronarYDeshacer ==
    /\ (ultima_op = "hacer" /\ Ultimo(historial_movimientos).es_promocion_peon) =>
           En(tablero, Destino(historial_movimientos))
               = <<Ultimo(historial_movimientos).pieza_movida[1], "q">>
    /\ (/\ ultima_op = "deshacer"
        /\ antes /= <<>>
        /\ Ultimo(previo.historial_movimientos).es_promocion_peon) =>
           /\ En(tablero, Origen(previo.historial_movimientos))
                  = Ultimo(previo.historial_movimientos).pieza_movida
           /\ En(tablero, Destino(previo.historial_movimientos))
                  = En(antes[1], Destino(previo.historial_movimientos))

\* the rook's corner and the square the king crosses, for a castle to column cf
Esquina(cf) == IF cf = 6 THEN 7 ELSE 0

Cruzada(cf) == IF cf = 6 THEN 5 ELSE 3

\* the squares of row f strictly between the king's home square and the corner
EntreReyYEsquina(f, cf) == IF cf = 6 THEN {<<f, 5>>, <<f, 6>>} ELSE {<<f, 1>>, <<f, 2>>, <<f, 3>>}

EnrocadoComoDebe(tab, m) ==
    /\ Abs(m.col_final - m.col_inicial) = 2
    /\ tab[m.fila_final][m.col_final] = m.pieza_movida
    /\ tab[m.fila_inicial][m.col_inicial] = Vacia
    /\ tab[m.fila_final][Cruzada(m.col_final)] = <<m.pieza_movida[1], "r">>
    /\ tab[m.fila_final][Esquina(m.col_final)] = Vacia

DesenrocadoComoDebe(tab, m) ==
    /\ tab[m.fila_inicial][m.col_inicial] = m.pieza_movida
    /\ tab[m.fila_final][Esquina(m.col_final)] = <<m.pieza_movida[1], "r">>
    /\ \A sq \in EntreReyYEsquina(m.fila_final, m.col_final) : En(tab, sq) = Vacia

\* C20: hacer_movimiento of a castle moves the king two squares and the rook
\* from its corner to the square the king crossed (column 7 to 5, or 0 to 3),
\* the corner being left empty; deshacer_movimiento then puts king and rook
\* back, empties the squares between them and restores the castling rights.
C20_EnroqueYDeshacer ==
    /\ (ultima_op = "hacer" /\ Ultimo(historial_movimientos).es_movimiento_enroque) =>
           EnrocadoComoDebe(tablero, Ultimo(historial_movimientos))
    /\ (/\ ultima_op = "deshacer"
        /\ antes /= <<>>
        /\ Ultimo(previo.historial_movimientos).es_movimiento_enroque) =>
           /\ DesenrocadoComoDebe(tablero, Ultimo(previo.historial_movimientos))
           /\ derechos_enroque_actuales = antes[3]
           /\ tablero = antes[1]

\* White has castled on the queen's side and the castle has been taken back
C20_EnroqueLargoDeshecho ==
    /\ ultima_op = "deshacer"
    /\ antes /= <<>>
    /\ Ultimo(previo.historial_movimientos).es_movimiento_enroque
    /\ Ultimo(previo.historial_movimientos).col_final = 2
    /\ tablero[7][0] = <<"w", "r">>
    /\ tablero[7][4] = <<"w", "k">>
    /\ derechos_enroque_actuales.wqs

\* C21: for every square, cuadrado_bajo_ataque is true exactly when a piece
\* of the side not to move attacks the square under the rules of chess.
C21_AtaqueSegunReglas ==
    \A sq \in Casillas :
        CuadradoBajoAtaque(GS, sq[1], sq[2])
            <=> Atacantes(tablero, Oponente(Bando), sq) /= {}

Adyacentes(a, b) == a /= b /\ Abs(a[1] - b[1]) <= 1 /\ Abs(a[2] - b[2]) <= 1

\* the two kings stand next to each other on the board
ReyesAdyacentes(tab) ==
    \E a \in CasillasDe(tab, <<"w", "k">>), b \in CasillasDe(tab, <<"b", "k">>) :
        Adyacentes(a, b)

\* the move takes a king to a square next to the other side's king
ReyJuntoAlRey(tab, m) ==
    /\ m.pieza_movida[2] = "k"
    /\ \E b \in CasillasDe(tab, <<IF m.pieza_movida[1] = "w" THEN "b" ELSE "w", "k">>) :
           Adyacentes(<<m.fila_final, m.col_final>>, b)

\* C22: the two kings never stand on adjacent squares, and the legal list
\* never holds a king move whose destination is adjacent to the enemy king.
C22_ReyesNuncaJuntos ==
    /\ ~ReyesAdyacentes(tablero)
    /\ ultima_op = "obtener" =>
           \A m \in Elementos(movimientos_legales) : ~ReyJuntoAlRey(tablero, m)

\* the move is a pawn's advance of two squares
DobleAvance(m) == m.pieza_movida[2] = "p" /\ Abs(m.fila_final - m.fila_inicial) = 2

\* the square a pawn jumped over in its advance of two squares
Saltada(m) == <<(m.fila_inicial + m.fila_final) \div 2, m.col_inicial>>

\* C23: the en-passant target is set exactly when the move on top of the
\* history is a pawn's advance of two squares, and it is then the square the
\* pawn jumped over; with an empty history or another top move it is unset.
C23_AlPasoSegunUltimo ==
    pos_en_passant_posible =
        IF Len(historial_movimientos) > 0 /\ DobleAvance(Ultimo(historial_movimientos))
        THEN Saltada(Ultimo(historial_movimientos))
        ELSE <<>>

\* a move has been taken back and the move now on top of the history is a
\* pawn's advance of two squares, whose jumped square is the target again
C23_DobleAvanceTrasDeshacer ==
    /\ ultima_op = "deshacer"
    /\ Len(previo.historial_movimientos) = Len(historial_movimientos) + 1
    /\ Len(historial_movimientos) > 0
    /\ DobleAvance(Ultimo(historial_movimientos))
    /\ previo.pos_en_passant_posible = <<>>
    /\ pos_en_passant_posible = Saltada(Ultimo(historial_movimientos))

\* the rule for one right: hacer_movimiento(m) takes the right of the colour
\* on the wing of the rook column away
PierdeDerecho(m, color, col_torre) ==
    LET casa == IF color = "w" THEN 7 ELSE 0
    IN  \/ m.pieza_movida = <<color, "k">>
        \/ /\ m.pieza_movida = <<color, "r">>
           /\ <<m.fila_inicial, m.col_inicial>> = <<casa, col_torre>>
        \/ /\ m.pieza_capturada = <<color, "r">>
           /\ <<m.fila_final, m.col_final>> = <<casa, col_torre>>

DerechosSegunRegla(d, m) ==
    [wks |-> d.wks /\ ~PierdeDerecho(m, "w", 7),
     wqs |-> d.wqs /\ ~PierdeDerecho(m, "w", 0),
     bks |-> d.bks /\ ~PierdeDerecho(m, "b", 7),
     bqs |-> d.bqs /\ ~PierdeDerecho(m, "b", 0)]

\* C24: hacer_movimiento never turns a castling right on, and it turns a
\* right off exactly when the mover's king moves, when a rook of the mover
\* leaves its home corner, or when a rook is captured on its home corner;
\* every other right keeps its value.
C24_DerechosSegunRegla ==
    ultima_op \in {"hacer", "soltar"} =>
        derechos_enroque_actuales =
            DerechosSegunRegla(previo.derechos_enroque_actuales,
                               Ultimo(historial_movimientos))

\* a pawn has taken the rook on h8 while Black could still castle on that
\* wing, and Black has lost that right and kept the other
C24_TorreTomadaEnSuEsquina ==
    /\ ultima_op = "hacer"
    /\ Ultimo(historial_movimientos).pieza_capturada = <<"b", "r">>
    /\ Ultimo(historial_movimientos).pieza_movida = <<"w", "p">>
    /\ <<Ultimo(historial_movimientos).fila_final,
         Ultimo(historial_movimientos).col_final>> = <<0, 7>>
    /\ previo.derechos_enroque_actuales.bks
    /\ ~derechos_enroque_actuales.bks
    /\ derechos_enroque_actuales.bqs

\* the king of the side to move stands on the square the game state holds for it
ReyEnSuCasilla(gs) == En(gs.tablero, ReyPropio(gs)) = <<ColorPropio(gs), "k">>

\* a castle, by its flag or by the king's step of two columns
EsEnroque(m) ==
    \/ m.es_movimiento_enroque
    \/ m.pieza_movida[2] = "k" /\ Abs(m.col_final - m.col_inicial) = 2

C26_BusquedaRestaura ==
    ultima_op = "find_best_move" =>
        /\ Len(historial_movimientos) = Len(previo.historial_movimientos)
        /\ Posicion(GS) = Posicion(previo)

\* the weight of a piece type
Peso(tipo) ==
    CASE tipo = "p" -> 10
      [] tipo = "n" -> 30
      [] tipo = "b" -> 30
      [] tipo = "r" -> 50
      [] tipo = "q" -> 90
      [] tipo = "k" -> 0

\* the weights of the pieces of one colour, summed type by type
Material(tab, color) ==
    Peso("p") * Cardinality(CasillasDe(tab, <<color, "p">>))
    + Peso("n") * Cardinality(CasillasDe(tab, <<color, "n">>))
    + Peso("b") * Cardinality(CasillasDe(tab, <<color, "b">>))
    + Peso("r") * Cardinality(CasillasDe(tab, <<color, "r">>))
    + Peso("q") * Cardinality(CasillasDe(tab, <<color, "q">>))
    + Peso("k") * Cardinality(CasillasDe(tab, <<color, "k">>))

ValorSegunRegla(gs) ==
    IF gs.jaque_mate THEN (IF gs.turno_blancas THEN -1000000000 ELSE 1000000000)
    ELSE IF gs.ahogado THEN 0
    ELSE Material(gs.tablero, "w") - Material(gs.tablero, "b")

\* C27: evaluar_tablero returns -1000000000 for a checkmate with White to
\* move and +1000000000 with Black to move, 0 for a stalemate, and otherwise
\* the weights of the white pieces minus those of the black pieces; it is 0
\* in the starting position.
C27_EvaluacionSegunRegla ==
    /\ EvaluarTablero(GS) = ValorSegunRegla(GS)
    /\ Len(historial_movimientos) = 0 => EvaluarTablero(GS) = 0

\* the stalemate of LineaAhogado has been flagged with White a knight and a
\* pawn ahead, and the position is valued 0
C27_AhogadoConVentaja ==
    /\ ultima_op = "obtener"
    /\ ahogado
    /\ Material(tablero, "w") - Material(tablero, "b") = 100
    /\ EvaluarTablero(GS) = 0

SinBanderas == ~jaque_mate /\ ~ahogado

\* the flag that is set is the one obtener_movimientos_legales would set for
\* the game state as it is now
BanderasAlDia(res) ==
    /\ res.movimientos = <<>>
    /\ jaque_mate = res.gs.jaque_mate
    /\ ahogado = res.gs.ahogado

\* C28: after every hacer_movimiento and every deshacer_movimiento that
\* changes the position the checkmate and stalemate flags are both false, and
\* a flag that is true describes the current position.
C28_BanderasDelMomento ==
    /\ ultima_op \in {"hacer", "soltar"} => SinBanderas
    /\ (ultima_op = "deshacer" /\ Posicion(GS) /= Posicion(previo)) => SinBanderas
    /\ ~SinBanderas => BanderasAlDia(ObtenerMovimientosLegales(GS))

\* the move that gave checkmate has been taken back after the checkmate had
\* been flagged, and the flag is down again
C28_MateDeshecho ==
    /\ ultima_op = "deshacer"
    /\ previo.jaque_mate
    /\ Posicion(GS) /= Posicion(previo)
    /\ SinBanderas

\* C29: the castling-rights history has exactly one more entry than the move
\* history, its top entry equals the current castling rights, and its bottom
\* entry is the all-true initial rights.
C29_PilaDeDerechos ==
    /\ Len(historial_derechos_enroque) = Len(historial_movimientos) + 1
    /\ Ultimo(historial_derechos_enroque) = derechos_enroque_actuales
    /\ historial_derechos_enroque[1] = DerechosEnroque(TRUE, TRUE, TRUE, TRUE)

\* a move that had taken castling rights away has been taken back: the stack
\* is one entry shorter and its top, the rights of before, is current again
C29_DerechosDevueltos ==
    /\ ultima_op = "deshacer"
    /\ Len(historial_movimientos) > 0
    /\ Len(historial_derechos_enroque) = Len(previo.historial_derechos_enroque) - 1
    /\ previo.derechos_enroque_actuales /= derechos_enroque_actuales
    /\ Ultimo(historial_derechos_enroque) = derechos_enroque_actuales

\* the game of a fresh EstadoJuego: starting position, white to move, no move
\* played, nothing flagged
EsJuegoNuevo ==
    /\ tablero = TableroInicial
    /\ turno_blancas
    /\ historial_movimientos = <<>>
    /\ ~jaque_mate
    /\ ~ahogado

\* C30: in the game screen a press of R starts a fresh game at the starting
\* position and a press of Escape returns to the menu, in every game state,
\* also after checkmate or stalemate has been flagged.
C30_TeclasSiempreAtendidas ==
    /\ tecla = "r" => (estado_juego_actual = GAME_STATE /\ EsJuegoNuevo)
    /\ tecla = "escape" => estado_juego_actual = MENU_STATE

====
